---- MODULE Spec2Model ----
(***************************************************************************)
(* Tick aggregation (PGUtils.get_tick_data, PGUtils.get_ohlcv) and         *)
(* bhavcopy reconciliation (sanity.bhavcopy.compare_data) of DataDashboard.*)
(*                                                                         *)
(* Timestamps are whole seconds counted from midnight of day 0, dates are  *)
(* day numbers, strings that the code slices or compares character-wise    *)
(* are sequences of one-character strings, and a data frame is a sequence  *)
(* of records, one per row, in row order.                                  *)
(***************************************************************************)
EXTENDS Integers, Sequences, FiniteSets, Bags, TLC

(* ------------------------------ bounds -------------------------------- *)

\* rows the tbt table may hold
MaxTicks == 3
\* rows of the reference frame and the computed frame of one reconciliation,
\* taken together
MaxRows == 3
\* rows of the reference frame
MaxRef == 2
\* rows the table may hold in an ingestion run: two files of two pages
MaxIngest == 202

(* --------------------------- program values --------------------------- *)

\* seconds of one calendar day: the frequency of the daily bars
SecondsPerDay == 86400
\* rows of one INSERT statement of execute_values: its page_size, which
\* insert_df_to_tbt leaves at the default
PageSize == 100
\* the day datetime.now() gives
Today == 1
\* the missing numeric value (SQL NULL, pandas NaN)
NaN == -1
\* the missing value of a string column (pandas None / NaN)
NoneStr == <<"None">>
\* a mismatch table that is None
None == <<>>
\* symbol "": no instrument filter
NoSymbol == <<>>

Tickers == {<<"A">>, <<"B">>}
Times == {0, 1, 4}
Prices == {1, 2}
Qtys == {1, 2}
Symbols == {NoSymbol, <<"A">>}
\* the requests served: date_range.split(":"), the dates as day numbers
\* (<<>> is the date_range ""), and the frequency: 2-second rows of day 0,
\* daily rows of days 0 to 1 and of today, rows of 50000 seconds (which do
\* not divide the day) of days 0 to 1, and the frequency 0
Requests ==
    [symbol : Symbols, date_range : {<<0>>}, frequency : {2}]
    \cup
    [symbol : {NoSymbol}, date_range : {<<0, 1>>}, frequency : {SecondsPerDay}]
    \cup
    [symbol : {<<"A">>}, date_range : {<<>>}, frequency : {SecondsPerDay}]
    \cup
    [symbol : {NoSymbol}, date_range : {<<0, 1>>}, frequency : {50000}]
    \cup
    [symbol : {NoSymbol}, date_range : {<<0>>}, frequency : {0}]

\* the rows insert_df_to_tbt is given: "Datetime" and "Ticker" are NOT NULL.
\* Day 0 has ticks of instrument "A" at seconds 0, 1 and 4, of quantity 1
\* and, at second 0, of quantity 2, ticks of instrument "B" at seconds 0 and
\* 1 and, for instrument "A", a quote update without a traded price at
\* second 1; day 1 has one tick of instrument "A", at midnight
TickRows ==
    [Datetime : Times, Ticker : {<<"A">>}, LTP : Prices, LTQ : {1},
     BuyPrice : {1}, BuyQty : {1}, SellPrice : {1}, SellQty : {1},
     OpenInterest : {0}]
    \cup
    [Datetime : {0}, Ticker : {<<"A">>}, LTP : Prices, LTQ : {2},
     BuyPrice : {1}, BuyQty : {1}, SellPrice : {1}, SellQty : {1},
     OpenInterest : {0}]
    \cup
    [Datetime : {0, 1}, Ticker : {<<"B">>}, LTP : Prices, LTQ : {1},
     BuyPrice : {1}, BuyQty : {1}, SellPrice : {1}, SellQty : {1},
     OpenInterest : {0}]
    \cup
    [Datetime : {SecondsPerDay}, Ticker : {<<"A">>}, LTP : {1}, LTQ : {1},
     BuyPrice : {1}, BuyQty : {1}, SellPrice : {1}, SellQty : {1},
     OpenInterest : {0}]
    \cup
    [Datetime : {1}, Ticker : {<<"A">>}, LTP : {NaN}, LTQ : {1},
     BuyPrice : {1}, BuyQty : {1}, SellPrice : {1}, SellQty : {1},
     OpenInterest : {0}]
\* one file's frame
DataFrames == {<<t>> : t \in TickRows}

\* the rows of the files of an ingestion run: ticks of instrument "A" and a
\* row whose "Datetime" is missing, which the NOT NULL column rejects
GoodRows ==
    [Datetime : Times, Ticker : {<<"A">>}, LTP : Prices, LTQ : {1},
     BuyPrice : {1}, BuyQty : {1}, SellPrice : {1}, SellQty : {1},
     OpenInterest : {0}]
BadRow ==
    [Datetime |-> NaN, Ticker |-> <<"A">>, LTP |-> 1, LTQ |-> 1,
     BuyPrice |-> 1, BuyQty |-> 1, SellPrice |-> 1, SellQty |-> 1,
     OpenInterest |-> 0]
IngestRows == GoodRows \cup {BadRow}
\* the frames of its files: no row, the rejected row alone, and a full page
\* of one tick followed by a page of one row
IngestFrames ==
    {<<>>, <<BadRow>>}
    \cup
    {[i \in 1..(PageSize + 1) |-> IF i <= PageSize THEN g ELSE r] :
        g \in GoodRows, r \in IngestRows}

\* the worker threads of the API server that serve a request at one time
Threads == {1, 2}
\* the rows of the table while they do: two ticks of each instrument
ServerRows ==
    [Datetime : {0, 1}, Ticker : Tickers, LTP : {1}, LTQ : {1},
     BuyPrice : {1}, BuyQty : {1}, SellPrice : {1}, SellQty : {1},
     OpenInterest : {0}]
\* the requests they serve, /ticks or /ohlcv: one instrument, day 0, rows of
\* 2 seconds
ServerRequests ==
    [symbol : Tickers, date_range : {<<0>>}, frequency : {2}]

\* the series codes of the reference rows; NoneStr is an empty cell
EQ == <<"E", "Q">>
FUTIDX == <<"F", "U", "T", "I", "D", "X">>
Series == {EQ, FUTIDX, <<"e", "q">>, <<"B">>, NoneStr}
\* the instruments of the computed daily bars
BarTickers == {<<"A">>, <<"A", ".", "F", "U">>}
Dates == {0, 1}
\* (high, low) and the traded quantity of a reference row
RefHighLow == {<<NaN, NaN>>, <<1, 1>>, <<2, 2>>}
RefVolumes == {NaN, 1}

\* the rows of a bhavcopy file, under the column names of the file: every
\* value combination for the series EQ and FUTIDX, one row for each other
\* series
BhavRows ==
    {[SYMBOL |-> <<"A">>, SERIES |-> sr, TIMESTAMP |-> d, OPEN |-> 1,
      HIGH |-> hl[1], LOW |-> hl[2], CLOSE |-> 1, TOTTRDQTY |-> v] :
        sr \in {EQ, FUTIDX}, d \in Dates, hl \in RefHighLow, v \in RefVolumes}
    \cup
    {[SYMBOL |-> <<"A">>, SERIES |-> sr, TIMESTAMP |-> 0, OPEN |-> 1,
      HIGH |-> 2, LOW |-> 2, CLOSE |-> 1, TOTTRDQTY |-> 1] :
        sr \in Series \ {EQ, FUTIDX}}

\* the rows get_ohlcv(symbol="", frequency=86400) can return: one bar per
\* instrument and day, no missing value, low <= open, close <= high
BarRows ==
    {[datetime |-> d * SecondsPerDay, ticker |-> t, open |-> lh[1],
      high |-> lh[2], low |-> lh[1], close |-> lh[2], volume |-> v] :
        d \in Dates, t \in BarTickers,
        lh \in {p \in Prices \X Prices : p[1] <= p[2]}, v \in Qtys}

(* ----------------------------- characters ----------------------------- *)

\* the characters in use, in code point order
Alphabet == <<".", "A", "B", "D", "E", "F", "I", "N", "Q", "T", "U", "X",
              "a", "e", "n", "q">>

Code(c) == CHOOSE i \in 1..Len(Alphabet) : Alphabet[i] = c

\* str < str of Python: lexicographic by code point, a proper prefix first
RECURSIVE StrLess(_, _)
StrLess(s, t) ==
    IF t = <<>> THEN FALSE
    ELSE IF s = <<>> THEN TRUE
    ELSE IF Head(s) = Head(t) THEN StrLess(Tail(s), Tail(t))
    ELSE Code(Head(s)) < Code(Head(t))

(* ------------------------------ helpers ------------------------------- *)

Range(s) == {s[i] : i \in 1..Len(s)}

RECURSIVE Concat(_)
Concat(frames) ==
    IF frames = <<>> THEN <<>> ELSE Head(frames) \o Concat(Tail(frames))

\* the strings of a set in ascending order
RECURSIVE SortStrs(_)
SortStrs(S) ==
    IF S = {} THEN <<>>
    ELSE LET m == CHOOSE x \in S : \A y \in S : y = x \/ StrLess(x, y)
         IN  <<m>> \o SortStrs(S \ {m})

Day(t) == t \div SecondsPerDay

(* ---------------------------- _query_ticks ---------------------------- *)

\* _extract_dates: without a date_range the range is today; one date is
\* both ends of the range
extract_dates(date_range) ==
    LET date_range_split == IF date_range = <<>> THEN <<Today>>
                            ELSE date_range
    IN  IF Len(date_range_split) = 1
        THEN [start_date |-> date_range_split[1],
              end_date   |-> date_range_split[1]]
        ELSE [start_date |-> date_range_split[1],
              end_date   |-> date_range_split[2]]

\* the WHERE clause of _query_ticks
Selected(row, symbol, date_range) ==
    LET d == extract_dates(date_range)
    IN  /\ d.start_date <= Day(row.Datetime)
        /\ Day(row.Datetime) <= d.end_date
        /\ symbol # NoSymbol => row.Ticker = symbol

\* ORDER BY "Datetime": every order of a bag of rows that ascends in
\* Datetime; rows of one Datetime come in an order SQL leaves open
RECURSIVE OrderByDatetime(_)
OrderByDatetime(rows) ==
    IF DOMAIN rows = {} THEN {<<>>}
    ELSE LET firsts == {r \in DOMAIN rows :
                           \A q \in DOMAIN rows : r.Datetime <= q.Datetime}
         IN  UNION {{<<r>> \o s : s \in OrderByDatetime(rows (-) SetToBag({r}))}
                    : r \in firsts}

query_ticks(table, symbol, date_range) ==
    LET hit == {r \in DOMAIN table : Selected(r, symbol, date_range)}
    IN  OrderByDatetime([r \in hit |-> table[r]])

(* ------------------------- pandas aggregation ------------------------- *)

Column(df, c) == [i \in 1..Len(df) |-> df[i][c]]

Valid(col) == SelectSeq(col, LAMBDA v : v # NaN)

\* mutant of AggFirst: the latest value is taken for the first
AggFirst_Latest(col) ==
    IF Valid(col) = <<>> THEN NaN ELSE Valid(col)[Len(Valid(col))]

\* aggfunc "first", "last", "max", "min": over the non-missing values, NaN
\* when there is none
AggFirst(col) == IF Valid(col) = <<>> THEN NaN ELSE Head(Valid(col))

AggLast(col) == IF Valid(col) = <<>> THEN NaN ELSE Valid(col)[Len(Valid(col))]

\* mutant of AggMax: the first value is taken for the maximum
AggMax_First(col) == IF Valid(col) = <<>> THEN NaN ELSE Head(Valid(col))

AggMax(col) ==
    IF Valid(col) = <<>> THEN NaN
    ELSE CHOOSE m \in Range(Valid(col)) : \A v \in Range(Valid(col)) : v <= m

AggMin(col) ==
    IF Valid(col) = <<>> THEN NaN
    ELSE CHOOSE m \in Range(Valid(col)) : \A v \in Range(Valid(col)) : m <= v

\* aggfunc "sum": missing values are skipped, the empty sum is 0
RECURSIVE AggSum(_)
AggSum(col) ==
    IF col = <<>> THEN 0
    ELSE (IF Head(col) = NaN THEN 0 ELSE Head(col)) + AggSum(Tail(col))

\* aggfunc "last" of the "Ticker" column, which holds no missing value
AggLastStr(col) == IF col = <<>> THEN NoneStr ELSE col[Len(col)]

(* --------------------------- pandas resample -------------------------- *)

MinDatetime(df) ==
    CHOOSE t \in Range(Column(df, "Datetime")) :
        \A u \in Range(Column(df, "Datetime")) : t <= u

MaxDatetime(df) ==
    CHOOSE t \in Range(Column(df, "Datetime")) :
        \A u \in Range(Column(df, "Datetime")) : u <= t

\* origin="start_day": midnight of the day of the frame's first timestamp
Origin(df) == Day(MinDatetime(df)) * SecondsPerDay

\* the left edge of the bin of timestamp t
BinStart(t, origin, frequency) ==
    origin + ((t - origin) \div frequency) * frequency

NumBins(df, frequency) ==
    IF df = <<>> THEN 0
    ELSE (BinStart(MaxDatetime(df), Origin(df), frequency)
          - BinStart(MinDatetime(df), Origin(df), frequency)) \div frequency + 1

\* the labels of the bins of resample(f"{frequency}s"): every bin from the
\* one of the first timestamp to the one of the last, empty ones included
BinLabels(df, frequency) ==
    [k \in 1..NumBins(df, frequency) |->
        BinStart(MinDatetime(df), Origin(df), frequency) + (k - 1) * frequency]

\* mutant of set_grouper: the frame is binned in the order it came in
set_grouper_Unsorted(df) == df

\* resample sorts for itself: a time grouper always sorts, and a frame whose
\* index does not ascend is put in ascending "Datetime" order by a stable
\* sort (rows of one timestamp keep their order)
RECURSIVE set_grouper(_)
set_grouper(df) ==
    IF df = <<>> THEN <<>>
    ELSE LET m == CHOOSE i \in 1..Len(df) :
                      /\ \A j \in 1..Len(df) : df[i].Datetime <= df[j].Datetime
                      /\ \A j \in 1..(i - 1) : df[j].Datetime # df[i].Datetime
         IN  <<df[m]>>
             \o set_grouper(SubSeq(df, 1, m - 1) \o SubSeq(df, m + 1, Len(df)))

\* the rows of a bin [label, label + frequency), in the order of the sorted
\* frame
Bin(df, label, frequency) ==
    SelectSeq(set_grouper(df),
              LAMBDA r : label <= r.Datetime /\ r.Datetime < label + frequency)

(* ------------------------------ get_ohlcv ----------------------------- *)

\* .agg(...) of one bin, labelled by reset_index()
CandleOf(rows, label) ==
    [datetime |-> label,
     ticker   |-> AggLastStr(Column(rows, "Ticker")),
     open     |-> AggFirst(Column(rows, "LTP")),
     high     |-> AggMax(Column(rows, "LTP")),
     low      |-> AggMin(Column(rows, "LTP")),
     close    |-> AggLast(Column(rows, "LTP")),
     volume   |-> AggSum(Column(rows, "LTQ"))]

\* mutant of DropNaCandles: the rows of the empty bins are kept
DropNaCandles_Keep(rows) == rows

\* .dropna(): a row with a missing value in any column is dropped
DropNaCandles(rows) ==
    SelectSeq(rows, LAMBDA c :
        /\ c.ticker # NoneStr
        /\ c.open # NaN /\ c.high # NaN /\ c.low # NaN /\ c.close # NaN
        /\ c.volume # NaN)

\* group_df.resample(...).agg(...).reset_index().dropna()
ResampleCandles(group_df, frequency) ==
    DropNaCandles(
        [k \in 1..NumBins(group_df, frequency) |->
            CandleOf(Bin(group_df, BinLabels(group_df, frequency)[k], frequency),
                     BinLabels(group_df, frequency)[k])])

\* queried_data.groupby(["Ticker"]): the groups in ascending key order, the
\* rows of a group in frame order
GroupKeys(df) == SortStrs(Range(Column(df, "Ticker")))

Group(df, key) == SelectSeq(df, LAMBDA r : r.Ticker = key)

\* the frames appended to candles, then pd.concat(candles)
ohlcv_candles(queried_data, frequency) ==
    Concat([g \in 1..Len(GroupKeys(queried_data)) |->
               ResampleCandles(Group(queried_data, GroupKeys(queried_data)[g]),
                               frequency)])

(* ---------------------------- get_tick_data --------------------------- *)

\* .agg(...) of one bin of the whole frame
SnapshotOf(rows, label) ==
    [datetime      |-> label,
     ticker        |-> AggLastStr(Column(rows, "Ticker")),
     ltp           |-> AggLast(Column(rows, "LTP")),
     ltq           |-> AggSum(Column(rows, "LTQ")),
     buy_price     |-> AggLast(Column(rows, "BuyPrice")),
     buy_qty       |-> AggLast(Column(rows, "BuyQty")),
     sell_price    |-> AggLast(Column(rows, "SellPrice")),
     sell_qty      |-> AggLast(Column(rows, "SellQty")),
     open_interest |-> AggLast(Column(rows, "OpenInterest"))]

DropNaSnapshots(rows) ==
    SelectSeq(rows, LAMBDA s :
        /\ s.ticker # NoneStr
        /\ s.ltp # NaN /\ s.ltq # NaN
        /\ s.buy_price # NaN /\ s.buy_qty # NaN
        /\ s.sell_price # NaN /\ s.sell_qty # NaN
        /\ s.open_interest # NaN)

\* queried_data.resample(...).agg(...).reset_index().dropna(): the frame is
\* resampled as a whole, not per "Ticker"
tick_snapshots(queried_data, frequency) ==
    DropNaSnapshots(
        [k \in 1..NumBins(queried_data, frequency) |->
            SnapshotOf(Bin(queried_data, BinLabels(queried_data, frequency)[k],
                           frequency),
                       BinLabels(queried_data, frequency)[k])])

(* ---------------------------- compare_data ---------------------------- *)

Lowers == <<"a", "e", "n", "q">>

Uppers == <<"A", "E", "N", "Q">>

\* str.upper() of one character
UpperChar(c) ==
    IF \E i \in 1..Len(Lowers) : Lowers[i] = c
    THEN Uppers[CHOOSE i \in 1..Len(Lowers) : Lowers[i] = c]
    ELSE c

\* mutant of upper: the series is not upper-cased
upper_Unchanged(s) == s

upper(s) == [i \in 1..Len(s) |-> UpperChar(s[i])]

\* str(row["series"]): an empty cell is the float nan
str(series) == IF series = NoneStr THEN <<"n", "a", "n">> ELSE series

\* s[:2]
FirstTwo(s) == SubSeq(s, 1, IF Len(s) < 2 THEN Len(s) ELSE 2)

\* the "ticker" of a reference row
ticker_of(symbol, series) ==
    IF series = EQ THEN symbol
    ELSE symbol \o <<".">> \o FirstTwo(upper(str(series)))

\* pd.to_datetime(timestamp): midnight of the date
to_datetime(timestamp) == timestamp * SecondsPerDay

\* bhav_df.columns.str.lower(): the columns of the file under lower-case names
lower_columns(df) ==
    [i \in 1..Len(df) |->
        [symbol    |-> df[i].SYMBOL,
         series    |-> df[i].SERIES,
         timestamp |-> df[i].TIMESTAMP,
         open      |-> df[i].OPEN,
         high      |-> df[i].HIGH,
         low       |-> df[i].LOW,
         close     |-> df[i].CLOSE,
         tottrdqty |-> df[i].TOTTRDQTY]]

\* the columns "datetime" and "ticker" added to the (lower-cased) frame
with_keys(df) ==
    [i \in 1..Len(df) |->
        [symbol    |-> df[i].symbol,
         series    |-> df[i].series,
         timestamp |-> df[i].timestamp,
         open      |-> df[i].open,
         high      |-> df[i].high,
         low       |-> df[i].low,
         close     |-> df[i].close,
         tottrdqty |-> df[i].tottrdqty,
         datetime  |-> to_datetime(df[i].timestamp),
         ticker    |-> ticker_of(df[i].symbol, df[i].series)]]

\* the lower-cased bhav_df with the "datetime" and "ticker" columns, the seven
\* columns selected and tottrdqty renamed to volume
bhav_rows(bhav_df) ==
    [i \in 1..Len(bhav_df) |->
        [datetime |-> to_datetime(bhav_df[i].timestamp),
         ticker   |-> ticker_of(bhav_df[i].symbol, bhav_df[i].series),
         open     |-> bhav_df[i].open,
         high     |-> bhav_df[i].high,
         low      |-> bhav_df[i].low,
         close    |-> bhav_df[i].close,
         volume   |-> bhav_df[i].tottrdqty]]

KeyOf(row) == <<row.datetime, row.ticker>>

KeyLess(k, l) == k[1] < l[1] \/ (k[1] = l[1] /\ StrLess(k[2], l[2]))

\* mutant of SortKeys: the keys in descending order
RECURSIVE SortKeys_Descending(_)
SortKeys_Descending(S) ==
    IF S = {} THEN <<>>
    ELSE LET m == CHOOSE x \in S : \A y \in S : y = x \/ KeyLess(y, x)
         IN  <<m>> \o SortKeys_Descending(S \ {m})

RECURSIVE SortKeys(_)
SortKeys(S) ==
    IF S = {} THEN <<>>
    ELSE LET m == CHOOSE x \in S : \A y \in S : y = x \/ KeyLess(x, y)
         IN  <<m>> \o SortKeys(S \ {m})

NoSide == [open |-> NaN, high |-> NaN, low |-> NaN, close |-> NaN, volume |-> NaN]

\* one row of the merged frame: the key, the value columns of the left row
\* suffixed _b and those of the right row suffixed _o
Joined(key, b, o) ==
    [datetime |-> key[1], ticker |-> key[2],
     open_b |-> b.open, high_b |-> b.high, low_b |-> b.low,
     close_b |-> b.close, volume_b |-> b.volume,
     open_o |-> o.open, high_o |-> o.high, low_o |-> o.low,
     close_o |-> o.close, volume_o |-> o.volume]

\* the merged rows of one key: every pairing of its left and right rows, or
\* the rows of the one side with the other side missing
RowsOfKey(left, right, key) ==
    LET l == SelectSeq(left, LAMBDA r : KeyOf(r) = key)
        r == SelectSeq(right, LAMBDA q : KeyOf(q) = key)
    IN  IF r = <<>> THEN [i \in 1..Len(l) |-> Joined(key, l[i], NoSide)]
        ELSE IF l = <<>> THEN [j \in 1..Len(r) |-> Joined(key, NoSide, r[j])]
        ELSE Concat([i \in 1..Len(l) |->
                        [j \in 1..Len(r) |-> Joined(key, l[i], r[j])]])

\* mutant of merge_outer: how="left", the keys of the left frame only
merge_left(left, right) ==
    LET keys == SortKeys({KeyOf(left[i]) : i \in 1..Len(left)})
    IN  Concat([k \in 1..Len(keys) |-> RowsOfKey(left, right, keys[k])])

\* pd.merge(..., on=["datetime", "ticker"], how="outer"): the union of the
\* keys of both frames, in ascending key order
merge_outer(left, right) ==
    LET keys == SortKeys({KeyOf(left[i]) : i \in 1..Len(left)}
                         \cup {KeyOf(right[j]) : j \in 1..Len(right)})
    IN  Concat([k \in 1..Len(keys) |-> RowsOfKey(left, right, keys[k])])

\* the comparisons of two columns, element by element: any comparison with a
\* missing value is False, except != which is True
Ne(a, b) == a = NaN \/ b = NaN \/ a # b

\* mutant of Lt: <= for <
Lt_OrEqual(a, b) == a # NaN /\ b # NaN /\ a <= b

Lt(a, b) == a # NaN /\ b # NaN /\ a < b

\* mutant of Gt: >= for >
Gt_OrEqual(a, b) == a # NaN /\ b # NaN /\ a >= b

Gt(a, b) == a # NaN /\ b # NaN /\ a > b

\* a mismatch frame as the report gives it: None when empty, else the header
\* and one row per frame row
Table(header, rows) == IF rows = <<>> THEN None ELSE <<header>> \o rows

volume_mismatch(merged) ==
    Table(<<"datetime", "ticker", "volume_b", "volume_o">>,
          LET hit == SelectSeq(merged, LAMBDA m : Ne(m.volume_b, m.volume_o))
          IN  [i \in 1..Len(hit) |->
                  <<hit[i].datetime, hit[i].ticker, hit[i].volume_b,
                    hit[i].volume_o>>])

high_mismatch(merged) ==
    Table(<<"datetime", "ticker", "high_b", "high_o">>,
          LET hit == SelectSeq(merged, LAMBDA m : Lt(m.high_b, m.high_o))
          IN  [i \in 1..Len(hit) |->
                  <<hit[i].datetime, hit[i].ticker, hit[i].high_b,
                    hit[i].high_o>>])

low_mismatch(merged) ==
    Table(<<"datetime", "ticker", "low_b", "low_o">>,
          LET hit == SelectSeq(merged, LAMBDA m : Gt(m.low_b, m.low_o))
          IN  [i \in 1..Len(hit) |->
                  <<hit[i].datetime, hit[i].ticker, hit[i].low_b,
                    hit[i].low_o>>])

\* mutant of shape_diff: the rows of the merged frame are counted for the
\* reference rows
shape_diff_Joined(bhav, ohlcv) == Len(merge_outer(bhav, ohlcv)) - Len(ohlcv)

\* bhav_df.shape[0] - ohlcv_df.shape[0]
shape_diff(bhav, ohlcv) == Len(bhav) - Len(ohlcv)

(* ------------------------------- state -------------------------------- *)

VARIABLES
    tbt,            \* the rows of table tbt, a bag
    insertion,      \* "none", "running" while insert_df_to_tbt sends its
                    \* pages, or what it printed last: "inserted" or "failed"
    data,           \* insert_df_to_tbt: the rows of the running call
    page,           \* execute_values: the pages of data sent so far
    cursor,         \* pgutils.cursor of the API server: the rows of its last
                    \* execute not yet fetched
    threads,        \* the threads of the API server: where each one is in its
                    \* handler ("idle", "fetchall", "done"), its request, the
                    \* frame _query_ticks returned to it, the frame the
                    \* handler returned, and the outcome: "none", "ok", or
                    \* "error" when the handler raised
    bhav_df,        \* compare_data: the reference frame
    ohlcv_df,       \* compare_data: the computed frame
    merged_df,      \* compare_data: the merged frame
    report,         \* compare_data: the dictionary returned
    stage           \* "none", "loaded" (frames read), "compared", or
                    \* "error" when compare_data raised

engine == <<tbt, insertion, data, page>>

server == <<cursor, threads>>

recon == <<bhav_df, ohlcv_df, merged_df, report, stage>>

vars == <<tbt, insertion, data, page, cursor, threads,
          bhav_df, ohlcv_df, merged_df, report, stage>>

NoRequest == [op |-> "none"]

NoReport ==
    [shape_diff |-> 0, volume_mismatch |-> None, high_mismatch |-> None,
     low_mismatch |-> None]

\* a thread that serves no request
NoThread ==
    [pc |-> "idle", request |-> NoRequest, queried_data |-> <<>>,
     response |-> <<>>, outcome |-> "none"]

\* the request of the first thread, and what its handler holds
request == threads[1].request

queried_data == threads[1].queried_data

response == threads[1].response

outcome == threads[1].outcome

EngineInit ==
    /\ tbt = EmptyBag
    /\ insertion = "none"
    /\ data = <<>>
    /\ page = 0
    /\ cursor = <<>>
    /\ threads = [t \in Threads |-> NoThread]

Init ==
    /\ EngineInit
    /\ bhav_df = <<>>
    /\ ohlcv_df = <<>>
    /\ merged_df = <<>>
    /\ report = NoReport
    /\ stage = "none"

\* execute_values: the rows in pages of PageSize rows, one INSERT statement
\* each
Pages(rows) ==
    [k \in 1..((Len(rows) + PageSize - 1) \div PageSize) |->
        SubSeq(rows, (k - 1) * PageSize + 1,
               IF k * PageSize < Len(rows) THEN k * PageSize ELSE Len(rows))]

\* an INSERT statement succeeds when each of its rows has the NOT NULL
\* "Datetime"; it inserts all of its rows or none
Accepted(rows) == \A i \in 1..Len(rows) : rows[i].Datetime # NaN

RECURSIVE BagOf(_)
BagOf(rows) ==
    IF rows = <<>> THEN EmptyBag
    ELSE SetToBag({Head(rows)}) (+) BagOf(Tail(rows))

\* the INSERT statement of page k of rows. With autocommit on, its rows are
\* committed as it ends, and the other connections see them. When it is
\* rejected it inserts nothing, the error is caught and printed, and
\* conn.rollback() has nothing to undo: the pages committed before it stay.
\* After the last page "Data inserted successfully" is printed. The rows of
\* the call are gone when it returns
insert_page(rows, k) ==
    IF Accepted(Pages(rows)[k])
    THEN /\ tbt' = tbt (+) BagOf(Pages(rows)[k])
         /\ IF k = Len(Pages(rows))
            THEN insertion' = "inserted" /\ data' = <<>> /\ page' = 0
            ELSE insertion' = "running" /\ data' = rows /\ page' = k
    ELSE /\ tbt' = tbt
         /\ insertion' = "failed"
         /\ data' = <<>>
         /\ page' = 0

\* PGUtils.insert_df_to_tbt, from the call to the end of the first INSERT
\* statement of execute_values; a frame without rows gives no statement
insert_df_to_tbt(data_df) ==
    /\ insertion # "running"
    /\ IF data_df = <<>>
       THEN /\ tbt' = tbt
            /\ insertion' = "inserted"
            /\ data' = <<>>
            /\ page' = 0
       ELSE insert_page(data_df, 1)
    /\ UNCHANGED server
    /\ UNCHANGED recon

\* psycopg2.extras.execute_values within insert_df_to_tbt: the INSERT
\* statement of the next page
execute_values ==
    /\ insertion = "running"
    /\ insert_page(data, page + 1)
    /\ UNCHANGED server
    /\ UNCHANGED recon

\* what get_ohlcv or get_tick_data makes of the rows _query_ticks returned:
\* pd.concat of an empty list of frames raises, resample of a frame without
\* rows raises, and so does resample("0s"), which divides by the bin width
serve(op, rows, frequency) ==
    IF rows = <<>> \/ frequency = 0
    THEN [response |-> <<>>, outcome |-> "error"]
    ELSE [response |-> IF op = "get_ohlcv"
                       THEN ohlcv_candles(rows, frequency)
                       ELSE tick_snapshots(rows, frequency),
          outcome  |-> "ok"]

\* PGUtils.get_ohlcv in thread t, from the call to the end of
\* self.cursor.execute(...) in _query_ticks: the rows of the thread's query
\* become the result of the cursor all threads share, in place of what it held
get_ohlcv(t, symbol, date_range, frequency) ==
    /\ threads[t].pc = "idle"
    /\ \E rows \in query_ticks(tbt, symbol, date_range) : cursor' = rows
    /\ threads' =
          [threads EXCEPT ![t] =
              [pc           |-> "fetchall",
               request      |-> [op |-> "get_ohlcv", symbol |-> symbol,
                                 date_range |-> date_range,
                                 frequency |-> frequency],
               queried_data |-> <<>>,
               response     |-> <<>>,
               outcome      |-> "none"]]
    /\ UNCHANGED engine
    /\ UNCHANGED recon

\* PGUtils.get_tick_data in thread t, from the call to the end of
\* self.cursor.execute(...) in _query_ticks
get_tick_data(t, symbol, date_range, frequency) ==
    /\ threads[t].pc = "idle"
    /\ \E rows \in query_ticks(tbt, symbol, date_range) : cursor' = rows
    /\ threads' =
          [threads EXCEPT ![t] =
              [pc           |-> "fetchall",
               request      |-> [op |-> "get_tick_data", symbol |-> symbol,
                                 date_range |-> date_range,
                                 frequency |-> frequency],
               queried_data |-> <<>>,
               response     |-> <<>>,
               outcome      |-> "none"]]
    /\ UNCHANGED engine
    /\ UNCHANGED recon

\* _query_ticks, self.cursor.fetchall(), and the rest of the handler: the
\* thread takes the rows the shared cursor holds now, which leaves it none,
\* and get_ohlcv or get_tick_data works on the thread's own frame
cursor_fetchall(t) ==
    /\ threads[t].pc = "fetchall"
    /\ cursor' = <<>>
    /\ threads' =
          [threads EXCEPT ![t] =
              [pc           |-> "done",
               request      |-> threads[t].request,
               queried_data |-> cursor,
               response     |-> serve(threads[t].request.op, cursor,
                                      threads[t].request.frequency).response,
               outcome      |-> serve(threads[t].request.op, cursor,
                                      threads[t].request.frequency).outcome]]
    /\ UNCHANGED engine
    /\ UNCHANGED recon

\* the handler has returned; its frames are gone
Return(t) ==
    /\ threads[t].pc = "done"
    /\ threads' = [threads EXCEPT ![t] = NoThread]
    /\ UNCHANGED cursor
    /\ UNCHANGED engine
    /\ UNCHANGED recon

\* the requests of one client, served one after the other by the first
\* thread, while the ingester, a process with a connection of its own,
\* inserts the frame of one file after the other
Next ==
    \/ \E data_df \in DataFrames :
          /\ BagCardinality(tbt) + Len(data_df) <= MaxTicks
          /\ insert_df_to_tbt(data_df)
    \/ \E r \in Requests : get_ohlcv(1, r.symbol, r.date_range, r.frequency)
    \/ \E r \in Requests : get_tick_data(1, r.symbol, r.date_range, r.frequency)
    \/ cursor_fetchall(1)
    \/ Return(1)

Spec == Init /\ [][Next]_vars

(* ----------------------------- ingestion ------------------------------ *)

\* Ingester.ingest_tbt_data: insert_df_to_tbt for the frame of each file,
\* one after the other
IngestNext ==
    \/ \E data_df \in IngestFrames :
          /\ BagCardinality(tbt) + Len(data_df) <= MaxIngest
          /\ insert_df_to_tbt(data_df)
    \/ execute_values

SpecIngest == Init /\ [][IngestNext]_vars

(* ------------------------- concurrent requests ------------------------ *)

\* the tables of the server: up to two of its rows
ServerTables ==
    {SetToBag(S) : S \in {T \in SUBSET ServerRows : Cardinality(T) <= 2}}

\* the server is up, no request has come in; all threads use the one PGUtils
\* object of the module, pgutils
ServerInit ==
    /\ tbt \in ServerTables
    /\ insertion = "none"
    /\ data = <<>>
    /\ page = 0
    /\ cursor = <<>>
    /\ threads = [t \in Threads |-> NoThread]
    /\ bhav_df = <<>>
    /\ ohlcv_df = <<>>
    /\ merged_df = <<>>
    /\ report = NoReport
    /\ stage = "none"

\* two requests at one time, each served by a thread of the pool
ServerNext ==
    \/ \E t \in Threads : \E r \in ServerRequests :
          get_ohlcv(t, r.symbol, r.date_range, r.frequency)
    \/ \E t \in Threads : \E r \in ServerRequests :
          get_tick_data(t, r.symbol, r.date_range, r.frequency)
    \/ \E t \in Threads : cursor_fetchall(t)

SpecServer == ServerInit /\ [][ServerNext]_vars

(* --------------------------- reconciliation --------------------------- *)

\* the order of the bars of get_ohlcv: by instrument, then by interval
BarLess(a, b) ==
    \/ StrLess(a.ticker, b.ticker)
    \/ a.ticker = b.ticker /\ a.datetime < b.datetime

\* the computed frames of m rows
BarFrames(m) ==
    {f \in [1..m -> BarRows] : \A i \in 1..(m - 1) : BarLess(f[i], f[i + 1])}

\* run_bhav_checks has read the two frames of one date: get_bhavcopy(tdate)
\* and get_ohlcv(tdate)
ReconInit ==
    /\ EngineInit
    /\ \E n \in 0..MaxRef :
          \E m \in 0..(MaxRows - n) :
              /\ bhav_df \in [1..n -> BhavRows]
              /\ ohlcv_df \in BarFrames(m)
    /\ merged_df = <<>>
    /\ report = NoReport
    /\ stage = "loaded"

\* sanity.bhavcopy.compare_data. The caller's bhav_df is changed in place:
\* its columns are lower-cased and "datetime" and "ticker" are added. For a
\* frame without rows, apply(axis=1) gives a frame in place of the "ticker"
\* column and the assignment raises: nothing is returned
compare_data ==
    /\ stage = "loaded"
    /\ bhav_df' = with_keys(lower_columns(bhav_df))
    /\ IF bhav_df = <<>>
       THEN /\ merged_df' = <<>>
            /\ report' = NoReport
            /\ stage' = "error"
       ELSE /\ merged_df' = merge_outer(bhav_rows(lower_columns(bhav_df)),
                                        ohlcv_df)
            /\ report' =
                  [shape_diff      |-> shape_diff(
                                           bhav_rows(lower_columns(bhav_df)),
                                           ohlcv_df),
                   volume_mismatch |-> volume_mismatch(merged_df'),
                   high_mismatch   |-> high_mismatch(merged_df'),
                   low_mismatch    |-> low_mismatch(merged_df')]
            /\ stage' = "compared"
    /\ UNCHANGED ohlcv_df
    /\ UNCHANGED engine
    /\ UNCHANGED server

ReconNext == compare_data

SpecRecon == ReconInit /\ [][ReconNext]_vars

(* ===================== aggregation: the properties ==================== *)

Served(op) == request.op = op /\ outcome = "ok"

\* every queried tick carries a price and a quantity
AllPriced(rows) == \A i \in 1..Len(rows) : rows[i].LTP # NaN /\ rows[i].LTQ # NaN

\* the positions in the queried frame of the ticks of one instrument whose
\* timestamp lies in [start, start + frequency)
TicksOf(rows, ticker, start, frequency) ==
    {i \in 1..Len(rows) :
        /\ rows[i].Ticker = ticker
        /\ start <= rows[i].Datetime
        /\ rows[i].Datetime < start + frequency}

RECURSIVE QtyTotal(_, _)
QtyTotal(rows, I) ==
    IF I = {} THEN 0
    ELSE LET i == CHOOSE j \in I : TRUE
         IN  rows[i].LTQ + QtyTotal(rows, I \ {i})

\* C1: when every queried tick has a price and a quantity, each bar of
\* get_ohlcv is computed from exactly the ticks of its instrument in
\* [interval_start, interval_start + F): open is the price of the earliest of
\* them (the first in query order), close that of the latest, high the
\* maximum price, low the minimum, volume the sum of the quantities.
C1_BarFromOwnBucket ==
    (Served("get_ohlcv") /\ AllPriced(queried_data)) =>
        \A k \in 1..Len(response) :
            LET bar == response[k]
                I   == TicksOf(queried_data, bar.ticker, bar.datetime,
                               request.frequency)
            IN  /\ I # {}
                /\ \E i \in I :
                      /\ \A j \in I : i <= j
                      /\ \A j \in I : queried_data[i].Datetime
                                        <= queried_data[j].Datetime
                      /\ bar.open = queried_data[i].LTP
                /\ \E i \in I :
                      /\ \A j \in I : j <= i
                      /\ \A j \in I : queried_data[j].Datetime
                                        <= queried_data[i].Datetime
                      /\ bar.close = queried_data[i].LTP
                /\ \E i \in I : bar.high = queried_data[i].LTP
                /\ \A j \in I : queried_data[j].LTP <= bar.high
                /\ \E i \in I : bar.low = queried_data[i].LTP
                /\ \A j \in I : bar.low <= queried_data[j].LTP
                /\ bar.volume = QtyTotal(queried_data, I)

\* C1 witness: two bars of one instrument, the first built from two ticks of
\* different price and quantity
C1_Witness ==
    /\ Served("get_ohlcv") /\ AllPriced(queried_data)
    /\ Len(response) = 2
    /\ response[1].ticker = response[2].ticker
    /\ response[1].open # response[1].close
    /\ response[1].volume = 3

\* C2: every bar of get_ohlcv, whatever the ticks and the frequency, has
\* low <= open <= high and low <= close <= high.
C2_BarInvariant ==
    Served("get_ohlcv") =>
        \A k \in 1..Len(response) :
            /\ response[k].low <= response[k].open
            /\ response[k].open <= response[k].high
            /\ response[k].low <= response[k].close
            /\ response[k].close <= response[k].high

\* C2 witness: a bar that opens at its high and closes at its low
C2_Witness ==
    /\ Served("get_ohlcv")
    /\ \E k \in 1..Len(response) :
          /\ response[k].low < response[k].high
          /\ response[k].open = response[k].high
          /\ response[k].close = response[k].low

\* the (instrument, interval_start) buckets that hold a queried tick; the
\* frequencies in use divide the day, so interval_start is
\* floor(timestamp / F) * F
Buckets(rows, frequency) ==
    {<<rows[i].Ticker, (rows[i].Datetime \div frequency) * frequency>> :
        i \in 1..Len(rows)}

\* C3: get_tick_data yields exactly one snapshot per non-empty
\* (instrument, interval_start) bucket, also without an instrument filter,
\* and the last_price and last_qty_total of a snapshot come from the ticks
\* of its own instrument only.
C3_SnapshotPerInstrumentBucket ==
    (Served("get_tick_data") /\ AllPriced(queried_data)) =>
        /\ \A b \in Buckets(queried_data, request.frequency) :
              Cardinality({k \in 1..Len(response) :
                  /\ response[k].ticker = b[1]
                  /\ response[k].datetime = b[2]}) = 1
        /\ \A k \in 1..Len(response) :
              LET snap == response[k]
                  I    == TicksOf(queried_data, snap.ticker, snap.datetime,
                                  request.frequency)
              IN  /\ I # {}
                  /\ \E i \in I : /\ \A j \in I : j <= i
                                  /\ snap.ltp = queried_data[i].LTP
                  /\ snap.ltq = QtyTotal(queried_data, I)

\* C4: neither get_ohlcv nor get_tick_data emits a row for an
\* (instrument, interval) bucket without a tick: every row carries an
\* instrument, and a queried tick of that instrument lies in its interval.
C4_NoRowForEmptyBucket ==
    (Served("get_ohlcv") \/ Served("get_tick_data")) =>
        \A k \in 1..Len(response) :
            /\ response[k].ticker # NoneStr
            /\ TicksOf(queried_data, response[k].ticker, response[k].datetime,
                       request.frequency) # {}

\* C4 witness: the bins of the served frame include one without a tick,
\* between two bins that gave a row
C4_Witness ==
    /\ Served("get_tick_data")
    /\ Len(response) = 2
    /\ \E k \in 1..NumBins(queried_data, request.frequency) :
          /\ Bin(queried_data, BinLabels(queried_data, request.frequency)[k],
                 request.frequency) = <<>>
          /\ response[1].datetime < BinLabels(queried_data, request.frequency)[k]
          /\ BinLabels(queried_data, request.frequency)[k] < response[2].datetime

\* C11: the bars of one get_ohlcv call lie on one grid: for any frequency F,
\* also one that does not divide the day, the interval_start values of any
\* two bars, also of different instruments whose first ticks fall on
\* different days, differ by a whole multiple of F.
C11_BucketsAlign ==
    Served("get_ohlcv") =>
        \A j, k \in 1..Len(response) :
            (response[j].datetime - response[k].datetime) % request.frequency = 0

\* the instruments of a frame in the order of their first row
RECURSIVE FirstSeen(_)
FirstSeen(tickers) ==
    IF tickers = <<>> THEN <<>>
    ELSE <<Head(tickers)>>
         \o FirstSeen(SelectSeq(Tail(tickers), LAMBDA t : t # Head(tickers)))

\* C12: get_ohlcv lists the instrument groups in the order in which each
\* instrument is first seen in the queried ticks, the bars of one instrument
\* contiguous and ascending in interval_start.
C12_FirstSeenGroupOrder ==
    Served("get_ohlcv") =>
        /\ FirstSeen(Column(response, "ticker"))
              = SelectSeq(FirstSeen(Column(queried_data, "Ticker")),
                          LAMBDA t : \E k \in 1..Len(response) :
                                         response[k].ticker = t)
        /\ \A j, k \in 1..Len(response) :
              (j < k /\ response[j].ticker = response[k].ticker) =>
                  /\ response[j].datetime < response[k].datetime
                  /\ \A i \in j..k : response[i].ticker = response[j].ticker

\* C13: a request whose range and instrument hold no tick is served with an
\* empty result, by get_ohlcv as by get_tick_data; no error is raised.
C13_EmptyIsNormal ==
    (outcome # "none" /\ request.frequency > 0 /\ queried_data = <<>>) =>
        (outcome = "ok" /\ response = <<>>)

\* C14: a request with frequency <= 0 is rejected before anything else is
\* done: the call raises, no tick has been fetched and nothing is returned.
C14_InvalidFrequencyRejected ==
    (outcome # "none" /\ request.frequency <= 0) =>
        (outcome = "error" /\ queried_data = <<>> /\ response = <<>>)

\* C15: requests served at the same time are independent: under every
\* interleaving of their execute and fetch steps, what a request returns is
\* what its own query gives, as if it had run alone.
C15_RequestsIndependent ==
    \A t \in Threads :
        threads[t].pc = "done" =>
            \E rows \in query_ticks(tbt, threads[t].request.symbol,
                                    threads[t].request.date_range) :
                /\ threads[t].queried_data = rows
                /\ threads[t].response
                      = serve(threads[t].request.op, rows,
                              threads[t].request.frequency).response
                /\ threads[t].outcome
                      = serve(threads[t].request.op, rows,
                              threads[t].request.frequency).outcome

\* the ticks the request selected have pairwise distinct timestamps
DistinctTimes ==
    \A i, j \in 1..Len(queried_data) :
        i # j => queried_data[i].Datetime # queried_data[j].Datetime

\* the orders a frame can be put in: its rows under every permutation of
\* their positions
Shuffles(rows) ==
    {[i \in 1..Len(rows) |-> rows[p[i]]] :
        p \in {q \in [1..Len(rows) -> 1..Len(rows)] :
                  \A i, j \in 1..Len(rows) : i # j => q[i] # q[j]}}

\* C16: for ticks with pairwise distinct timestamps the result of
\* get_tick_data and of get_ohlcv does not depend on the order of the ticks:
\* the aggregation, given the fetched ticks in any permutation of their
\* order, gives the rows, values and row order that were returned, because
\* it sorts the ticks itself before it takes the first and last of a bucket.
C16_SortInvariance ==
    (outcome # "none" /\ DistinctTimes) =>
        \A rows \in Shuffles(queried_data) :
            serve(request.op, rows, request.frequency)
                = [response |-> response, outcome |-> outcome]

\* C16 witness: a bar built from two ticks of different time and price, where
\* the order of the two decides open and close, beside a tick of another
\* bucket: six orders of the three ticks
C16_Witness ==
    /\ Served("get_ohlcv")
    /\ DistinctTimes
    /\ Len(queried_data) = 3
    /\ Cardinality(Shuffles(queried_data)) = 6
    /\ Len(response) = 2
    /\ response[1].open # response[1].close
    /\ response[1].volume >= 2

\* C19: when insert_df_to_tbt fails, the table holds exactly the rows it held
\* before the call and none of the rows of data_df: no page of data_df has
\* been committed when the call prints its failure (the error is caught, and
\* the frame of the next file is inserted).
C19_FailedInsertRollsBack ==
    [][insertion' = "failed" => page = 0]_vars

(* =================== reconciliation: the properties =================== *)

Compared == stage = "compared"

\* a data row of a mismatch table (the header is its first element)
InTable(table, row) ==
    table # None /\ \E i \in 2..Len(table) : table[i] = row

HighRow(m) == <<m.datetime, m.ticker, m.high_b, m.high_o>>

LowRow(m) == <<m.datetime, m.ticker, m.low_b, m.low_o>>

VolumeRow(m) == <<m.datetime, m.ticker, m.volume_b, m.volume_o>>

\* C5: a row of the outer join is in high_mismatch exactly when reference
\* high < computed high and in low_mismatch exactly when reference low >
\* computed low; equal values, the opposite direction and a missing value on
\* either side never put it there, and the tables hold nothing else.
C5_HighLowStrict ==
    Compared =>
        /\ \A k \in 1..Len(merged_df) :
              LET m == merged_df[k]
              IN  /\ InTable(report.high_mismatch, HighRow(m))
                        <=> (m.high_b # NaN /\ m.high_o # NaN /\ m.high_b < m.high_o)
                  /\ InTable(report.low_mismatch, LowRow(m))
                        <=> (m.low_b # NaN /\ m.low_o # NaN /\ m.low_b > m.low_o)
        /\ report.high_mismatch # None =>
              \A i \in 2..Len(report.high_mismatch) :
                  \E k \in 1..Len(merged_df) :
                      report.high_mismatch[i] = HighRow(merged_df[k])
        /\ report.low_mismatch # None =>
              \A i \in 2..Len(report.low_mismatch) :
                  \E k \in 1..Len(merged_df) :
                      report.low_mismatch[i] = LowRow(merged_df[k])

\* C5 witness: one joined row with reference high below computed high and
\* reference low below computed low, which is the only row reported, in
\* high_mismatch alone, beside a reference-only row
C5_Witness ==
    /\ Compared
    /\ report.low_mismatch = None
    /\ report.high_mismatch # None
    /\ Len(report.high_mismatch) = 2
    /\ \E k \in 1..Len(merged_df) :
          /\ merged_df[k].high_b # NaN /\ merged_df[k].high_b < merged_df[k].high_o
          /\ merged_df[k].low_b # NaN /\ merged_df[k].low_b < merged_df[k].low_o
    /\ \E k \in 1..Len(merged_df) :
          merged_df[k].high_b # NaN /\ merged_df[k].high_o = NaN

\* C6: a joined row is in volume_mismatch exactly when the two volumes
\* differ, a missing value against a value counting as a difference and
\* missing against missing not.
C6_VolumeNullPolicy ==
    Compared =>
        \A k \in 1..Len(merged_df) :
            LET m == merged_df[k]
            IN  InTable(report.volume_mismatch, VolumeRow(m))
                    <=> \/ m.volume_b # NaN /\ m.volume_o # NaN
                           /\ m.volume_b # m.volume_o
                        \/ m.volume_b = NaN /\ m.volume_o # NaN
                        \/ m.volume_b # NaN /\ m.volume_o = NaN

\* the keys of the two frames as compare_data joins them
RefKeys == {KeyOf(bhav_rows(bhav_df)[i]) : i \in 1..Len(bhav_df)}

BarKeys == {KeyOf(ohlcv_df[j]) : j \in 1..Len(ohlcv_df)}

\* C7: the join is a full outer join on (datetime, ticker): a row whose key
\* only one frame holds is in the merged frame with the other side missing,
\* and when its volume is not missing it is reported in volume_mismatch.
C7_OuterJoin ==
    Compared =>
        /\ \A i \in 1..Len(bhav_df) :
              LET b == bhav_rows(bhav_df)[i]
              IN  KeyOf(b) \notin BarKeys =>
                      /\ \E k \in 1..Len(merged_df) :
                            /\ KeyOf(merged_df[k]) = KeyOf(b)
                            /\ merged_df[k].volume_b = b.volume
                            /\ merged_df[k].high_b = b.high
                            /\ merged_df[k].low_b = b.low
                            /\ merged_df[k].volume_o = NaN
                            /\ merged_df[k].high_o = NaN
                            /\ merged_df[k].low_o = NaN
                      /\ b.volume # NaN =>
                            InTable(report.volume_mismatch,
                                    <<b.datetime, b.ticker, b.volume, NaN>>)
        /\ \A j \in 1..Len(ohlcv_df) :
              LET o == ohlcv_df[j]
              IN  KeyOf(o) \notin RefKeys =>
                      /\ \E k \in 1..Len(merged_df) :
                            /\ KeyOf(merged_df[k]) = KeyOf(o)
                            /\ merged_df[k].volume_o = o.volume
                            /\ merged_df[k].high_o = o.high
                            /\ merged_df[k].low_o = o.low
                            /\ merged_df[k].volume_b = NaN
                            /\ merged_df[k].high_b = NaN
                            /\ merged_df[k].low_b = NaN
                      /\ o.volume # NaN =>
                            InTable(report.volume_mismatch,
                                    <<o.datetime, o.ticker, NaN, o.volume>>)

\* C7 witness: a key only the reference frame holds and a key only the
\* computed frame holds, both reported
C7_Witness ==
    /\ Compared
    /\ \E i \in 1..Len(bhav_df) :
          /\ KeyOf(bhav_rows(bhav_df)[i]) \notin BarKeys
          /\ bhav_df[i].tottrdqty # NaN
    /\ \E j \in 1..Len(ohlcv_df) : KeyOf(ohlcv_df[j]) \notin RefKeys
    /\ report.volume_mismatch # None
    /\ Len(report.volume_mismatch) >= 3

\* the instrument id the reference rows of the model are to get
C8_Expected(symbol, series) ==
    CASE series = EQ -> symbol
      [] series = FUTIDX -> symbol \o <<".", "F", "U">>
      [] series = <<"e", "q">> -> symbol \o <<".", "E", "Q">>
      [] series = <<"B">> -> symbol \o <<".", "B">>

\* C8: a reference row (symbol, series) is joined under instrument id symbol
\* when series is exactly "EQ", and otherwise under symbol + "." + the first
\* two characters of the upper-cased series.
C8_IdentityNormalization ==
    Compared =>
        \A i \in 1..Len(bhav_df) :
            bhav_df[i].series # NoneStr =>
                \E k \in 1..Len(merged_df) :
                    /\ merged_df[k].datetime = bhav_df[i].timestamp * SecondsPerDay
                    /\ merged_df[k].ticker
                           = C8_Expected(bhav_df[i].symbol, bhav_df[i].series)
                    /\ merged_df[k].volume_b = bhav_df[i].tottrdqty
                    /\ merged_df[k].high_b = bhav_df[i].high
                    /\ merged_df[k].low_b = bhav_df[i].low

\* C8 witness: ("A", "EQ") joined as "A" and ("A", "FUTIDX") as "A.FU"
C8_Witness ==
    /\ Compared
    /\ \E i \in 1..Len(bhav_df) : bhav_df[i].series = EQ
    /\ \E i \in 1..Len(bhav_df) : bhav_df[i].series = FUTIDX
    /\ \E k \in 1..Len(merged_df) : merged_df[k].ticker = <<"A">>
    /\ \E k \in 1..Len(merged_df) : merged_df[k].ticker = <<"A", ".", "F", "U">>

\* C9: shape_diff is the number of reference rows minus the number of
\* computed rows, counted before the join and signed.
C9_ShapeDiff ==
    Compared => report.shape_diff = Len(bhav_df) - Len(ohlcv_df)

\* C9 witness: one reference row against two computed rows, one key shared:
\* the difference is -1 while the join has two rows
C9_Witness ==
    /\ Compared
    /\ Len(bhav_df) = 1
    /\ Len(ohlcv_df) = 2
    /\ Len(merged_df) = 2
    /\ report.shape_diff = 0 - 1

\* the reference frame holds the keys of the computed frame, each once, with
\* the same volume, high and low
SameData ==
    /\ Len(bhav_df) = Len(ohlcv_df)
    /\ \A j \in 1..Len(ohlcv_df) :
          \E i \in 1..Len(bhav_df) :
              /\ KeyOf(bhav_rows(bhav_df)[i]) = KeyOf(ohlcv_df[j])
              /\ bhav_df[i].tottrdqty = ohlcv_df[j].volume
              /\ bhav_df[i].high = ohlcv_df[j].high
              /\ bhav_df[i].low = ohlcv_df[j].low
    /\ \A i \in 1..Len(bhav_df) : KeyOf(bhav_rows(bhav_df)[i]) \in BarKeys

\* C10: reconciling a computed frame against a reference frame of the same
\* keys and values gives shape_diff 0 and no mismatch table.
C10_SelfReconcile ==
    (Compared /\ SameData) =>
        /\ report.shape_diff = 0
        /\ report.volume_mismatch = None
        /\ report.high_mismatch = None
        /\ report.low_mismatch = None

\* C10 witness: a bar reconciled against a reference row of its key and values
C10_Witness ==
    /\ Compared
    /\ SameData
    /\ Len(ohlcv_df) >= 1
    /\ Len(merged_df) = Len(ohlcv_df)

\* the reference rows whose series is given
Mapped == {i \in 1..Len(bhav_df) : bhav_df[i].series # NoneStr}

MappedKeys ==
    {<<bhav_df[i].timestamp * SecondsPerDay,
       C8_Expected(bhav_df[i].symbol, bhav_df[i].series)>> : i \in Mapped}

\* C17: a reference row without a series is left out of the join and of the
\* row count: every joined row has the key of a reference row with a series
\* or of a computed row, and shape_diff counts the reference rows with a
\* series only.
C17_UnmappableExcluded ==
    Compared =>
        /\ \A k \in 1..Len(merged_df) :
              KeyOf(merged_df[k]) \in MappedKeys \cup BarKeys
        /\ report.shape_diff = Cardinality(Mapped) - Len(ohlcv_df)

\* the joined rows a mismatch table is to list, in the order of the join
VolumeHits ==
    SelectSeq(merged_df, LAMBDA m : \/ m.volume_b = NaN
                                    \/ m.volume_o = NaN
                                    \/ m.volume_b # m.volume_o)

HighHits ==
    SelectSeq(merged_df, LAMBDA m : /\ m.high_b # NaN /\ m.high_o # NaN
                                    /\ m.high_b < m.high_o)

LowHits ==
    SelectSeq(merged_df, LAMBDA m : /\ m.low_b # NaN /\ m.low_o # NaN
                                    /\ m.low_b > m.low_o)

\* a table is None without a qualifying row, else the header and one data
\* row per qualifying row, ascending in (datetime, ticker)
WellFormed(table, header, rows) ==
    IF rows = <<>> THEN table = None
    ELSE /\ table # None
         /\ Len(table) = Len(rows) + 1
         /\ table[1] = header
         /\ \A r \in Range(rows) :
               Cardinality({i \in 2..Len(table) : table[i] = r})
                   = Cardinality({j \in 1..Len(rows) : rows[j] = r})
         /\ \A i \in 2..(Len(table) - 1) :
               \/ <<table[i][1], table[i][2]>> = <<table[i + 1][1], table[i + 1][2]>>
               \/ KeyLess(<<table[i][1], table[i][2]>>,
                          <<table[i + 1][1], table[i + 1][2]>>)

\* C18: each of volume_mismatch, high_mismatch and low_mismatch is None when
\* no joined row qualifies, and otherwise the header row (datetime, ticker,
\* reference column, computed column) followed by exactly one data row per
\* qualifying joined row, in ascending (datetime, ticker) order.
C18_MismatchTables ==
    Compared =>
        /\ WellFormed(report.volume_mismatch,
                      <<"datetime", "ticker", "volume_b", "volume_o">>,
                      [i \in 1..Len(VolumeHits) |-> VolumeRow(VolumeHits[i])])
        /\ WellFormed(report.high_mismatch,
                      <<"datetime", "ticker", "high_b", "high_o">>,
                      [i \in 1..Len(HighHits) |-> HighRow(HighHits[i])])
        /\ WellFormed(report.low_mismatch,
                      <<"datetime", "ticker", "low_b", "low_o">>,
                      [i \in 1..Len(LowHits) |-> LowRow(LowHits[i])])

\* C18 witness: two rows of different key in volume_mismatch, given by a
\* reference frame that lists the later key first, one row in high_mismatch
\* and none in low_mismatch
C18_Witness ==
    /\ Compared
    /\ Len(bhav_df) = 2
    /\ KeyLess(KeyOf(bhav_rows(bhav_df)[2]), KeyOf(bhav_rows(bhav_df)[1]))
    /\ report.volume_mismatch # None
    /\ Len(report.volume_mismatch) = 3
    /\ report.volume_mismatch[2][1] = 0
    /\ report.volume_mismatch[3][1] = SecondsPerDay
    /\ report.high_mismatch # None
    /\ Len(report.high_mismatch) = 2
    /\ report.low_mismatch = None

====
